---- MODULE Spec2Model ----
(***************************************************************************)
(* Model of windows/flutter/generated_plugin_registrant.cc: the function    *)
(* RegisterPlugins(flutter::PluginRegistry* registry), ten statements of    *)
(* the form                                                                 *)
(*     XRegisterWithRegistrar(registry->GetRegistrarForPlugin("X"));        *)
(* Each statement is two external calls: the argument is evaluated (the     *)
(* lookup on the registry), then the plugin's registration function is      *)
(* called with the value the lookup returned.                               *)
(*                                                                          *)
(* The host registry and the plugin libraries are outside the repository:   *)
(* what they return is a nondeterministic choice over the values of the     *)
(* return type, the null registrar included.  What the model observes of    *)
(* them is the calls they receive.                                          *)
(***************************************************************************)
EXTENDS Integers, Sequences, FiniteSets

\* How many times the host invokes RegisterPlugins.
MaxCalls == 2
\* How many distinct non-null registrar handles a registry can hand out.
NumRegistrars == 1
\* How many distinct registries the host can pass.
NumRegistries == 2

VARIABLES
    pc,            \* 0: RegisterPlugins is not executing; i in 1..2n: the next
                   \* external call is the i-th; 2n+1: at the closing brace
    registry,      \* the parameter: <<>> outside an execution, <<r>> inside
    registrar,     \* the temporary holding the lookup's result: <<>> or <<v>>
    trace,         \* the external calls the execution in progress has made,
                   \* in order; empty when none is in progress
    lookups,       \* lookups[name]: GetRegistrarForPlugin(name) calls made
                   \* since the program started
    registrations, \* registrations[fn]: calls fn has received since then
    calls          \* completed executions of RegisterPlugins

vars == <<pc, registry, registrar, trace, lookups, registrations, calls>>

\* The registries the host may pass.  Each is a live PluginRegistry: the
\* body dereferences the pointer unchecked, so passing a null or dangling
\* one is outside what the function is defined for.
Registries == 1..NumRegistries

\* The values of FlutterDesktopPluginRegistrarRef: 0 is the null pointer,
\* the others are handles.
RegistrarRefs == 0..NumRegistrars

IsNull(ref) == ref = 0

\* Variants of the body a slip of the generator would produce.
Stmt(p) == [fn |-> p \o "RegisterWithRegistrar", name |-> p]

\* UrlLauncherWindows is left out.
BodyWithoutUrlLauncher ==
    << Stmt("AutoUpdaterPlugin"), Stmt("BatteryPlusWindowsPlugin"),
       Stmt("ConnectivityPlusWindowsPlugin"), Stmt("DesktopDropPlugin"),
       Stmt("FlutterSecureStorageWindowsPlugin"),
       Stmt("HotkeyManagerWindowsPluginCApi"), Stmt("ScreenRetrieverPlugin"),
       Stmt("SystemTrayPlugin"), Stmt("WindowManagerPlugin") >>

\* The last two statements look their registrar up under each other's name.
BodyWithNamesCrossed ==
    << Stmt("AutoUpdaterPlugin"), Stmt("BatteryPlusWindowsPlugin"),
       Stmt("ConnectivityPlusWindowsPlugin"), Stmt("DesktopDropPlugin"),
       Stmt("FlutterSecureStorageWindowsPlugin"),
       Stmt("HotkeyManagerWindowsPluginCApi"), Stmt("ScreenRetrieverPlugin"),
       Stmt("SystemTrayPlugin"),
       [fn   |-> "UrlLauncherWindowsRegisterWithRegistrar",
        name |-> "WindowManagerPlugin"],
       [fn   |-> "WindowManagerPluginRegisterWithRegistrar",
        name |-> "UrlLauncherWindows"] >>

\* The statements come out in another order (the first two exchanged).
BodyReordered ==
    << Stmt("BatteryPlusWindowsPlugin"), Stmt("AutoUpdaterPlugin"),
       Stmt("ConnectivityPlusWindowsPlugin"), Stmt("DesktopDropPlugin"),
       Stmt("FlutterSecureStorageWindowsPlugin"),
       Stmt("HotkeyManagerWindowsPluginCApi"), Stmt("ScreenRetrieverPlugin"),
       Stmt("SystemTrayPlugin"), Stmt("UrlLauncherWindows"),
       Stmt("WindowManagerPlugin") >>

\* SystemTrayPlugin's registrar is looked up under ScreenRetrieverPlugin's name.
BodyWithNameRepeated ==
    << Stmt("AutoUpdaterPlugin"), Stmt("BatteryPlusWindowsPlugin"),
       Stmt("ConnectivityPlusWindowsPlugin"), Stmt("DesktopDropPlugin"),
       Stmt("FlutterSecureStorageWindowsPlugin"),
       Stmt("HotkeyManagerWindowsPluginCApi"), Stmt("ScreenRetrieverPlugin"),
       [fn   |-> "SystemTrayPluginRegisterWithRegistrar",
        name |-> "ScreenRetrieverPlugin"],
       Stmt("UrlLauncherWindows"), Stmt("WindowManagerPlugin") >>

\* The statements of the body, in source order: the registration function
\* called and the string literal its argument is looked up under.
RegisterPluginsBody ==
    << [fn   |-> "AutoUpdaterPluginRegisterWithRegistrar",
        name |-> "AutoUpdaterPlugin"],
       [fn   |-> "BatteryPlusWindowsPluginRegisterWithRegistrar",
        name |-> "BatteryPlusWindowsPlugin"],
       [fn   |-> "ConnectivityPlusWindowsPluginRegisterWithRegistrar",
        name |-> "ConnectivityPlusWindowsPlugin"],
       [fn   |-> "DesktopDropPluginRegisterWithRegistrar",
        name |-> "DesktopDropPlugin"],
       [fn   |-> "FlutterSecureStorageWindowsPluginRegisterWithRegistrar",
        name |-> "FlutterSecureStorageWindowsPlugin"],
       [fn   |-> "HotkeyManagerWindowsPluginCApiRegisterWithRegistrar",
        name |-> "HotkeyManagerWindowsPluginCApi"],
       [fn   |-> "ScreenRetrieverPluginRegisterWithRegistrar",
        name |-> "ScreenRetrieverPlugin"],
       [fn   |-> "SystemTrayPluginRegisterWithRegistrar",
        name |-> "SystemTrayPlugin"],
       [fn   |-> "UrlLauncherWindowsRegisterWithRegistrar",
        name |-> "UrlLauncherWindows"],
       [fn   |-> "WindowManagerPluginRegisterWithRegistrar",
        name |-> "WindowManagerPlugin"] >>

NumStatements == Len(RegisterPluginsBody)

\* The registration functions the translation unit declares (its includes),
\* and the names it can look up.
Functions == { RegisterPluginsBody[k].fn : k \in 1..NumStatements }
Names     == { RegisterPluginsBody[k].name : k \in 1..NumStatements }

\* All ten arguments evaluated before the first registration function is
\* called.
CallAtArgumentsFirst(i) ==
    IF i <= NumStatements
    THEN [statement |-> i, argument |-> TRUE]
    ELSE [statement |-> i - NumStatements, argument |-> FALSE]

\* The i-th external call of an execution: the statement it belongs to, and
\* whether it is the evaluation of that statement's argument (the lookup) or
\* the call of its registration function.
CallAt(i) == [statement |-> (i + 1) \div 2, argument |-> i % 2 = 1]

LastCall == 2 * NumStatements

Init ==
    /\ pc = 0
    /\ registry = <<>>
    /\ registrar = <<>>
    /\ trace = <<>>
    /\ lookups = [n \in Names |-> 0]
    /\ registrations = [f \in Functions |-> 0]
    /\ calls = 0

\* RegisterPlugins behind an already-registered guard: a second invocation
\* goes straight to the closing brace.
RegisterPluginsGuarded(r) ==
    /\ pc = 0
    /\ calls < MaxCalls
    /\ pc' = IF calls > 0 THEN LastCall + 1 ELSE 1
    /\ registry' = <<r>>
    /\ UNCHANGED <<registrar, trace, lookups, registrations, calls>>

\* The host invokes RegisterPlugins(r); it does so at most MaxCalls times.
RegisterPlugins(r) ==
    /\ pc = 0
    /\ calls < MaxCalls
    /\ pc' = 1
    /\ registry' = <<r>>
    /\ UNCHANGED <<registrar, trace, lookups, registrations, calls>>

\* What a lookup can return.  The handles are opaque, so they are numbered
\* in the order in which an execution first sees them: the registry answers
\* with null, with a handle it has already returned to this execution, or
\* with the next one.
Answers ==
    LET seen == { trace[i].registrar :
                    i \in { h \in DOMAIN trace : trace[h].kind = "lookup" } }
                  \ {0}
    IN  { ref \in RegistrarRefs : ref <= Cardinality(seen) + 1 }

\* The lookup repeated until the registry answers with a registrar.
GetRegistrarForPluginRetrying ==
    /\ pc \in 1..LastCall
    /\ CallAt(pc).argument
    /\ LET r == registry[1]
           n == RegisterPluginsBody[CallAt(pc).statement].name
       IN  \E ref \in Answers :
             /\ registrar' = <<ref>>
             /\ trace' = Append(trace, [kind |-> "lookup", on |-> r,
                                        name |-> n, registrar |-> ref])
             /\ lookups' = [lookups EXCEPT ![n] = @ + 1]
             /\ pc' = IF IsNull(ref) THEN pc ELSE pc + 1
    /\ UNCHANGED <<registry, registrations, calls>>

\* registry->GetRegistrarForPlugin("X"): the registry answers with any value
\* of the return type.
GetRegistrarForPlugin ==
    /\ pc \in 1..LastCall
    /\ CallAt(pc).argument
    /\ LET r == registry[1]
           n == RegisterPluginsBody[CallAt(pc).statement].name
       IN  \E ref \in Answers :
             /\ registrar' = <<ref>>
             /\ trace' = Append(trace, [kind |-> "lookup", on |-> r,
                                        name |-> n, registrar |-> ref])
             /\ lookups' = [lookups EXCEPT ![n] = @ + 1]
    /\ pc' = pc + 1
    /\ UNCHANGED <<registry, registrations, calls>>

\* The registration function called with a null registrar instead of the
\* temporary.
RegisterWithNullRegistrar ==
    /\ pc \in 1..LastCall
    /\ ~CallAt(pc).argument
    /\ LET f == RegisterPluginsBody[CallAt(pc).statement].fn
       IN  /\ trace' = Append(trace, [kind |-> "register", fn |-> f,
                                      registrar |-> 0])
           /\ registrations' = [registrations EXCEPT ![f] = @ + 1]
    /\ registrar' = <<>>
    /\ pc' = pc + 1
    /\ UNCHANGED <<registry, lookups, calls>>

\* The registration skipped when the lookup returned null.
RegisterWithRegistrarUnlessNull ==
    /\ pc \in 1..LastCall
    /\ ~CallAt(pc).argument
    /\ LET f == RegisterPluginsBody[CallAt(pc).statement].fn
       IN  IF IsNull(registrar[1])
           THEN UNCHANGED <<trace, registrations>>
           ELSE /\ trace' = Append(trace, [kind |-> "register", fn |-> f,
                                           registrar |-> registrar[1]])
                /\ registrations' = [registrations EXCEPT ![f] = @ + 1]
    /\ registrar' = <<>>
    /\ pc' = pc + 1
    /\ UNCHANGED <<registry, lookups, calls>>

\* XRegisterWithRegistrar(<the temporary>): the call returns nothing.
RegisterWithRegistrar ==
    /\ pc \in 1..LastCall
    /\ ~CallAt(pc).argument
    /\ LET f == RegisterPluginsBody[CallAt(pc).statement].fn
       IN  /\ trace' = Append(trace, [kind |-> "register", fn |-> f,
                                      registrar |-> registrar[1]])
           /\ registrations' = [registrations EXCEPT ![f] = @ + 1]
    /\ registrar' = <<>>
    /\ pc' = pc + 1
    /\ UNCHANGED <<registry, lookups, calls>>

\* The registry pointer kept in static storage past the return.
ReturnKeepingRegistry ==
    /\ pc = LastCall + 1
    /\ pc' = 0
    /\ trace' = <<>>
    /\ calls' = calls + 1
    /\ UNCHANGED <<registry, registrar, lookups, registrations>>

\* The closing brace: the function returns to the host.
Return ==
    /\ pc = LastCall + 1
    /\ pc' = 0
    /\ registry' = <<>>
    /\ trace' = <<>>
    /\ calls' = calls + 1
    /\ UNCHANGED <<registrar, lookups, registrations>>

\* One step of an execution of the body: its next external call, or its
\* return.
Step ==
    \/ GetRegistrarForPlugin
    \/ RegisterWithRegistrar
    \/ Return

Next ==
    \/ \E r \in Registries : RegisterPlugins(r)
    \/ Step

Spec == Init /\ [][Next]_vars

\* Every external call returns and the function runs on one thread with
\* nothing to wait for: an execution that has begun takes its next step.
\* Whether the host invokes RegisterPlugins is left to the host.
FairSpec == Spec /\ WF_vars(Step)

----------------------------------------------------------------------------
(* What the claims speak of.                                                *)

\* The ten plugins, in the order the claims list them, and the registration
\* entry point of each.
TenPlugins ==
    << "AutoUpdaterPlugin", "BatteryPlusWindowsPlugin",
       "ConnectivityPlusWindowsPlugin", "DesktopDropPlugin",
       "FlutterSecureStorageWindowsPlugin", "HotkeyManagerWindowsPluginCApi",
       "ScreenRetrieverPlugin", "SystemTrayPlugin", "UrlLauncherWindows",
       "WindowManagerPlugin" >>

TenNames == { TenPlugins[k] : k \in 1..Len(TenPlugins) }

EntryPoint == [p \in TenNames |-> p \o "RegisterWithRegistrar"]

TenFunctions == [k \in 1..Len(TenPlugins) |-> EntryPoint[TenPlugins[k]]]

TenEntryPoints == { TenFunctions[k] : k \in 1..Len(TenPlugins) }

\* The plugin a registration entry point belongs to, and its place among
\* the ten.
PluginIndex == [f \in TenEntryPoints |->
                  CHOOSE k \in 1..Len(TenPlugins) : TenFunctions[k] = f]

OwnName == [f \in TenEntryPoints |-> TenPlugins[PluginIndex[f]]]

\* Position i of the trace is a registration call, or a lookup.
IsRegistration(i) == trace[i].kind = "register"
IsLookup(i)       == trace[i].kind = "lookup"

Registered == { i \in DOMAIN trace : IsRegistration(i) }
LookedUp   == { i \in DOMAIN trace : IsLookup(i) }

\* The positions of the trace at which f was called, and at which n was
\* looked up.
CallsOf(f)   == { i \in DOMAIN trace : IsRegistration(i) /\ trace[i].fn = f }
LookupsOf(n) == { i \in DOMAIN trace : IsLookup(i) /\ trace[i].name = n }

\* The execution has made its last external call and is about to return.
Finished == pc = LastCall + 1

\* C1: in one execution each of the ten registration entry points is invoked
\* exactly once: never twice while the execution runs, once each when it has
\* finished, and nothing but the ten is invoked.
C1_EachEntryPointOnce ==
    LET done == Registered
        fns  == { trace[i].fn : i \in done }
    IN  /\ fns \subseteq TenEntryPoints
        /\ Cardinality(fns) = Cardinality(done)
        /\ Finished => (fns = TenEntryPoints /\ Cardinality(done) = 10)

C1_Witness ==
    /\ pc = LastCall + 1
    /\ \A f \in TenEntryPoints : Cardinality(CallsOf(f)) = 1

\* C3: when a registration function is called (it is the last call made),
\* the registrar it receives is the value returned by the one lookup made
\* under that plugin's own name; every lookup made under another name is
\* another call.
C3_RegistrarOfOwnName ==
    (trace # <<>> /\ IsRegistration(Len(trace))) =>
      LET call == trace[Len(trace)]
      IN  /\ call.fn \in TenEntryPoints
          /\ LET own == LookupsOf(OwnName[call.fn])
             IN  /\ Cardinality(own) = 1
                 /\ \A j \in own : trace[j].registrar = call.registrar

\* The last plugin has just been handed its registrar, which is not the one
\* the plugin before it was handed.
C3_Witness ==
    /\ pc = LastCall + 1
    /\ IsRegistration(20)
    /\ IsRegistration(18)
    /\ trace[20].registrar # trace[18].registrar

\* The registration calls made so far, in order.
RECURSIVE FnsFrom(_)
FnsFrom(i) ==
    IF i > Len(trace) THEN <<>>
    ELSE IF trace[i].kind = "register"
         THEN <<trace[i].fn>> \o FnsFrom(i + 1)
         ELSE FnsFrom(i + 1)

\* C4: the registrations happen in the one listed order, whatever registry
\* was passed and whatever registrars it returned.
C4_FixedOrder ==
    LET done == FnsFrom(1)
    IN  /\ Len(done) <= Len(TenPlugins)
        /\ \A k \in 1..Len(done) : done[k] = TenFunctions[k]

\* All ten registered, on the second registry, with a null registrar among
\* the values returned.
C4_Witness ==
    /\ pc = LastCall + 1
    /\ registry = <<2>>
    /\ Len(FnsFrom(1)) = 10
    /\ \E i \in LookedUp : IsNull(trace[i].registrar)

\* C8: lookups and registrations alternate.  The call before plugin k's
\* registration is plugin k's lookup, the call after a lookup is that
\* plugin's registration, and when plugin k's registration has just been
\* called (it is the last call made) exactly the plugins 1..k-1 have been
\* registered before it and exactly the names 1..k looked up.
C8_Alternate ==
    /\ \A i \in DOMAIN trace :
         IF IsRegistration(i)
         THEN /\ trace[i].fn \in TenEntryPoints
              /\ i > 1
              /\ IsLookup(i - 1)
              /\ trace[i - 1].name = OwnName[trace[i].fn]
         ELSE /\ trace[i].name \in TenNames
              /\ i < Len(trace) =>
                    /\ IsRegistration(i + 1)
                    /\ trace[i + 1].fn = EntryPoint[trace[i].name]
    /\ (trace # <<>> /\ IsRegistration(Len(trace))) =>
         LET i == Len(trace)
             k == PluginIndex[trace[i].fn]
         IN  /\ { trace[e].fn : e \in { h \in 1..(i - 1) : IsRegistration(h) } }
                  = { TenFunctions[m] : m \in 1..(k - 1) }
             /\ { trace[e].name : e \in { h \in 1..(i - 1) : IsLookup(h) } }
                  = { TenPlugins[m] : m \in 1..k }

\* The sixth registration is the call just made: five plugins registered
\* before it, six names looked up.
C8_Witness ==
    /\ Len(trace) = 12
    /\ IsRegistration(12)
    /\ trace[12].fn = TenFunctions[6]
    /\ Cardinality(Registered) = 6
    /\ Cardinality(LookedUp) = 6

\* Position i is a registration whose argument was looked up in the call
\* before it.
Supplied(i) == IsRegistration(i) /\ i > 1 /\ IsLookup(i - 1)

\* C10: one execution looks up ten pairwise distinct names, each once, and
\* no two registration functions get a registrar requested under one name.
C10_DistinctNames ==
    LET asked    == LookedUp
        supplied == { i \in DOMAIN trace : Supplied(i) }
    IN  /\ Cardinality({ trace[i].name : i \in asked }) = Cardinality(asked)
        /\ Cardinality({ trace[i - 1].name : i \in supplied })
             = Cardinality(supplied)
        /\ supplied = Registered
        /\ Finished => Cardinality(asked) = 10

C10_Witness ==
    /\ pc = LastCall + 1
    /\ Cardinality({ trace[i].name : i \in LookedUp }) = 10

\* C2, as stated: every registration function receives a non-null
\* registrar, whatever GetRegistrarForPlugin returns.
C2_AlwaysNonNull ==
    \A i \in Registered : ~IsNull(trace[i].registrar)

\* C2, amended: a registration function receives a non-null registrar
\* whenever the lookup made for it returned one.
C2_NonNullWhenReturnedNonNull ==
    \A i \in Registered :
      /\ i > 1
      /\ trace[i - 1].kind = "lookup"
      /\ ~IsNull(trace[i - 1].registrar) => ~IsNull(trace[i].registrar)

\* Every lookup returned a registrar and all ten functions received one.
C2_Witness ==
    /\ pc = LastCall + 1
    /\ Cardinality(Registered) = 10
    /\ \A i \in LookedUp : ~IsNull(trace[i].registrar)
    /\ \A i \in Registered : ~IsNull(trace[i].registrar)

\* The plugin whose statement the execution is in after n external calls.
PluginAfter(n) == TenPlugins[n \div 2 + 1]

\* C5: no branch and no error path.  Inside an execution every step is the
\* one next call of the fixed sequence: after a lookup, the registration of
\* that plugin with the value returned, null or not; after a registration,
\* the lookup of the next plugin on the same registry, whatever went before.
C5_NoBranching ==
    [][ (pc \in 1..LastCall) =>
          /\ pc' = pc + 1
          /\ Len(trace') = Len(trace) + 1
          /\ SubSeq(trace', 1, Len(trace)) = trace
          /\ LET call == trace'[Len(trace')]
                 p == PluginAfter(Len(trace))
             IN  IF registrar # <<>>
                 THEN call = [kind |-> "register", fn |-> EntryPoint[p],
                              registrar |-> registrar[1]]
                 ELSE /\ call.kind = "lookup"
                      /\ call.name = p
                      /\ call.on = registry[1] ]_vars

\* A lookup before the last returned null, the null was passed on, and all
\* ten registrations were made.
C5_Witness ==
    /\ pc = LastCall + 1
    /\ Cardinality(Registered) = 10
    /\ \E i \in LookedUp :
         /\ i < Len(trace) - 1
         /\ IsNull(trace[i].registrar)
         /\ IsNull(trace[i + 1].registrar)

\* C6: an execution that has begun returns, and when it has it has made
\* exactly ten lookups and ten registration calls.
C6_Terminates ==
    /\ (pc # 0) ~> (pc = 0)
    /\ [](Finished =>
            /\ Cardinality(LookedUp) = 10
            /\ Cardinality(Registered) = 10
            /\ Len(trace) = 20)

\* The first execution has returned, ten lookups and ten registrations
\* behind it.
C6_Witness ==
    /\ pc = 0
    /\ calls = 1
    /\ \A k \in 1..Len(TenPlugins) :
         lookups[TenPlugins[k]] = 1 /\ registrations[TenFunctions[k]] = 1

\* C7: the function keeps nothing.  Its parameter and its temporary are gone
\* when it is not executing, every lookup of an execution is made on the
\* registry that execution was given, and a finished execution has made the
\* twenty calls and nothing else.
C7_KeepsNothing ==
    /\ pc = 0 => (registry = <<>> /\ registrar = <<>>)
    /\ pc # 0 => \A i \in LookedUp : trace[i].on = registry[1]
    /\ \A i \in DOMAIN trace : trace[i].kind \in {"lookup", "register"}
    /\ Finished => (Len(trace) = 20 /\ registrar = <<>>)
    /\ Finished => Cardinality({ trace[i].on : i \in LookedUp }) = 1

\* An execution has made its twenty calls on the second registry, and an
\* earlier one has returned.
C7_Witness ==
    /\ pc = LastCall + 1
    /\ calls = 1
    /\ registry = <<2>>
    /\ Len(trace) = 20
    /\ \A i \in LookedUp : trace[i].on = 2

\* C9: no guard against a second invocation.  When n executions have
\* returned every registration function has been called n times and every
\* name looked up n times, and the execution that is at its closing brace
\* has added one call of each: it has run the whole sequence again.
C9_NotIdempotent ==
    (pc = 0 \/ pc = LastCall + 1) =>
      LET n == IF pc = 0 THEN calls ELSE calls + 1
      IN  /\ \A k \in 1..Len(TenPlugins) :
               /\ registrations[TenFunctions[k]] = n
               /\ lookups[TenPlugins[k]] = n
          /\ pc # 0 => Len(trace) = 20

\* Two executions done: every plugin registered twice.
C9_Witness ==
    /\ pc = 0
    /\ calls = 2
    /\ \A k \in 1..Len(TenPlugins) :
         registrations[EntryPoint[TenPlugins[k]]] = 2

====
